---- MODULE Spec2Model ----
(***************************************************************************)
(* Model of src/main.py: the module's startup (environment, fail-fast      *)
(* exit) and TranslationClient.on_message, the handler that filters an     *)
(* inbound message, detects its language, translates it, downloads its     *)
(* attachments, deletes the original and reposts the translation through   *)
(* a webhook.                                                              *)
(*                                                                         *)
(* One handler invocation is a coroutine on a single-threaded event loop.  *)
(* An action of this model is one ATOMIC SEGMENT of the coroutine: the     *)
(* code that runs between two points where the coroutine really awaits     *)
(* (session.get / resp.read, message.delete, webhook.send).  The calls     *)
(* google_translator.detect and deepl_translator.translate_text are plain  *)
(* (un-awaited) calls, so they belong to the segment that starts the       *)
(* handler.  Every external call is recorded, in call order, in calls[i].  *)
(***************************************************************************)
EXTENDS Integers, Sequences, FiniteSets, TLC

\* ------------------------------------------------------------------ bounds
\* Number of handler invocations (events the gateway dispatches).
MaxInv == 2
\* Number of messages users post.
MaxMsg == 2
\* Largest number of attachments on one message.
MaxAtt == 2

Invs   == 1..MaxInv
MsgIds == 1..MaxMsg

\* --------------------------------------------------------- configuration
\* main.py:17  TARGET_CHANNEL_ID = int(os.environ.get("TARGET_CHANNEL_ID", 0));
\* line 26 makes the process exit when it is 0, so a running bot has it non-zero.
TARGET_CHANNEL_ID == 1
OtherChannelId == 2
ChannelIds == {TARGET_CHANNEL_ID, OtherChannelId}

\* --------------------------------------------------------------- inputs
None == "None"
DefaultAvatarUrl == "default.png"

\* message.author: bot flag, display_name, avatar (None or an asset url),
\* default_avatar.
Authors ==
    { [bot |-> FALSE, display_name |-> "ana",  avatar |-> "ana.png",
       default_avatar |-> DefaultAvatarUrl],
      [bot |-> FALSE, display_name |-> "bob",  avatar |-> None,
       default_avatar |-> DefaultAvatarUrl],
      [bot |-> TRUE,  display_name |-> "relay", avatar |-> None,
       default_avatar |-> DefaultAvatarUrl] }

Contents == {"hola", "ciao"}

\* The j-th attachment of message id: its url and its filename.
Attachment(id, j) == [url |-> <<"cdn", id, j>>, filename |-> <<"file", id, j>>]

AttachmentsOf(id, n) == [j \in 1..n |-> Attachment(id, j)]

\* The messages a user can post under identifier id.
UserMessages(id) ==
    { [id |-> id, channel |-> [id |-> c], author |-> a, content |-> t,
       attachments |-> AttachmentsOf(id, n)] :
        c \in ChannelIds, a \in Authors, t \in Contents, n \in 0..MaxAtt }

\* Placeholder of an invocation that has not received its event yet.
NoMessage ==
    [id |-> 0, channel |-> [id |-> 0],
     author |-> [bot |-> FALSE, display_name |-> "", avatar |-> None,
                 default_avatar |-> DefaultAvatarUrl],
     content |-> "", attachments |-> <<>>]

\* ------------------------------------------------- external call results
\* google_translator.detect(...).lang, or an exception.
Langs == {"en", "es"}
DetectResults == Langs \cup {"Exception"}

\* The English text the translation service gives for a text.
TranslationOf(text) == IF text = "hola" THEN "hello" ELSE "bye"

\* deepl_translator.translate_text(...): it returns (.text is the translation),
\* raises deepl.DeepLException, or raises an exception of another class
\* (ValueError, TypeError, ...).
TranslateResults == {"ok", "DeepLException", "Exception"}

\* session.get(url): HTTP 200 with the body read, another status, or an
\* exception from get/read.
FetchResults == {"200", "404", "Exception"}

\* message.delete(): success, discord.errors.Forbidden, discord.errors.NotFound,
\* or another exception (discord.HTTPException on 5xx, a transport error).
DeleteResults == {"ok", "Forbidden", "NotFound", "HTTPException"}

\* discord.Webhook.from_url(WEBHOOK_URL, ...): a webhook, or an exception
\* (ValueError on an URL that is not a webhook URL).
FromUrlResults == {"ok", "Exception"}

\* webhook.send(...): success or an exception.
SendResults == {"ok", "Exception"}

VARIABLES
    messages,          \* [MsgIds -> message]: what the users posted so far
    deleted,           \* ids of the messages no longer in their channel
    reposts,           \* sequence of the messages the webhook posted
    pc,                \* [Invs -> "idle" | "fetch" | "delete" | "send" | "done"]
    message,           \* [Invs -> message]: the handler's argument
    translated_text,   \* [Invs -> text]: local variable
    attachment_files,  \* [Invs -> Seq(file)]: local variable
    idx,               \* [Invs -> index of the attachment being fetched]
    calls,             \* [Invs -> Seq(call)]: external calls made, in order
    log,               \* [Invs -> Seq(text)]: lines printed on the console
    escaped,           \* [Invs -> BOOLEAN]: an exception left on_message
    sent,              \* [Invs -> Seq(envelope)]: what webhook.send posted
    env,               \* os.environ: a function from the names that are set
    proc               \* the process: "starting" | "exited" | "running"

vars == <<messages, deleted, reposts, pc, message, translated_text,
          attachment_files, idx, calls, log, escaped, sent, env, proc>>

\* ------------------------------------------------- startup (lines 8-31)
EnvNames == {"DISCORD_TOKEN", "WEBHOOK_URL", "DEEPL_API_KEY", "TARGET_CHANNEL_ID"}

\* The texts an environment variable can hold, as sequences of characters:
\* the empty text, a text that is no number, and the numbers 0 and 1.
EnvTexts(name) ==
    IF name = "TARGET_CHANNEL_ID" THEN {<<>>, <<"x">>, <<"0">>, <<"1">>}
    ELSE {<<>>, <<"x">>}

\* The environments the process can be started in.
Environments ==
    UNION {{e \in [S -> {<<>>, <<"x">>, <<"0">>, <<"1">>}] :
               \A name \in S : e[name] \in EnvTexts(name)} : S \in SUBSET EnvNames}

\* Python values: None, a text, an integer.
PyNone == [t |-> "None", s |-> <<>>, n |-> 0]
PyStr(s) == [t |-> "str", s |-> s, n |-> 0]
PyInt(n) == [t |-> "int", s |-> <<>>, n |-> n]

\* os.environ.get(name, default)
EnvGet(e, name, default) == IF name \in DOMAIN e THEN PyStr(e[name]) ELSE default

DigitChars == <<"0", "1", "2", "3", "4", "5", "6", "7", "8", "9">>
IsDigit(c) == \E d \in 1..10 : DigitChars[d] = c
DigitValue(c) == (CHOOSE d \in 1..10 : DigitChars[d] = c) - 1

\* int(v) raises ValueError: v is a text that is not a decimal number.
IntRaises(v) ==
    v.t = "str" /\ (Len(v.s) = 0 \/ \E k \in 1..Len(v.s) : ~IsDigit(v.s[k]))

RECURSIVE DecimalValue(_)
DecimalValue(s) ==
    IF Len(s) = 0 THEN 0
    ELSE 10 * DecimalValue(SubSeq(s, 1, Len(s) - 1)) + DigitValue(s[Len(s)])

\* int(v) when it does not raise
IntOf(v) == IF v.t = "int" THEN v.n ELSE DecimalValue(v.s)

\* Python truth value
Truthy(v) ==
    IF v.t = "None" THEN FALSE
    ELSE IF v.t = "str" THEN Len(v.s) > 0
    ELSE v.n # 0

\* lines 9-11
TOKEN(e) == EnvGet(e, "DISCORD_TOKEN", PyNone)
WEBHOOK_URL(e) == EnvGet(e, "WEBHOOK_URL", PyNone)
DEEPL_API_KEY(e) == EnvGet(e, "DEEPL_API_KEY", PyNone)

\* Mutant of ReadTargetChannelId: the fallback of line 23 is another
\* "appropriate default", the channel 1.
ReadTargetChannelId_DefaultOne(e) ==
    LET raw == EnvGet(e, "TARGET_CHANNEL_ID", PyInt(0)) IN
    IF IntRaises(raw) THEN PyInt(1) ELSE PyInt(IntOf(raw))

\* lines 16-23: TARGET_CHANNEL_ID = int(os.environ.get("TARGET_CHANNEL_ID", 0)),
\* and 0 when int raises ValueError.
ReadTargetChannelId(e) ==
    LET raw == EnvGet(e, "TARGET_CHANNEL_ID", PyInt(0)) IN
    IF IntRaises(raw) THEN PyInt(0) ELSE PyInt(IntOf(raw))

\* Mutant of RequiredSet: any() in place of all().
RequiredSet_Any(e) ==
    \/ Truthy(TOKEN(e)) \/ Truthy(WEBHOOK_URL(e)) \/ Truthy(DEEPL_API_KEY(e))
    \/ Truthy(ReadTargetChannelId(e))

\* line 26: all([TOKEN, WEBHOOK_URL, DEEPL_API_KEY, TARGET_CHANNEL_ID])
RequiredSet(e) ==
    /\ Truthy(TOKEN(e)) /\ Truthy(WEBHOOK_URL(e)) /\ Truthy(DEEPL_API_KEY(e))
    /\ Truthy(ReadTargetChannelId(e))

Call(op, k, res) == [op |-> op, k |-> k, res |-> res]

Init ==
    /\ messages = [id \in MsgIds |-> NoMessage]
    /\ deleted = {}
    /\ reposts = <<>>
    /\ pc = [i \in Invs |-> "idle"]
    /\ message = [i \in Invs |-> NoMessage]
    /\ translated_text = [i \in Invs |-> ""]
    /\ attachment_files = [i \in Invs |-> <<>>]
    /\ idx = [i \in Invs |-> 0]
    /\ calls = [i \in Invs |-> <<>>]
    /\ log = [i \in Invs |-> <<>>]
    /\ escaped = [i \in Invs |-> FALSE]
    /\ sent = [i \in Invs |-> <<>>]
    /\ env \in Environments
    /\ proc = "starting"

\* ------------------------------------------------------ the chat platform
\* The message the gateway dispatches for the k-th webhook post: it is in the
\* webhook's channel (the target channel), its author is the webhook user,
\* which the platform flags as a bot, and it carries the envelope's content,
\* username and files.
RepostId(k) == MaxMsg + k

RepostMessage(k) ==
    [id |-> RepostId(k), channel |-> [id |-> TARGET_CHANNEL_ID],
     author |-> [bot |-> TRUE, display_name |-> reposts[k].username,
                 avatar |-> reposts[k].avatar_url,
                 default_avatar |-> DefaultAvatarUrl],
     content |-> reposts[k].content,
     attachments |-> [j \in 1..Len(reposts[k].files) |->
                        [url |-> <<"cdn", RepostId(k), j>>,
                         filename |-> reposts[k].files[j].filename]]]

Posted == {id \in MsgIds : messages[id].id = id}

\* A user posts the next message: any message of UserMessages.
NewMessages ==
    UNION {UserMessages(id) : id \in {n \in MsgIds \ Posted : n = Cardinality(Posted) + 1}}

\* Every message whose event the gateway can dispatch to on_message: a message
\* a user posts now, a message posted before (its event is delivered again),
\* or a message the webhook posted.
Dispatchable ==
    NewMessages \cup {messages[id] : id \in Posted}
                \cup {RepostMessage(k) : k \in 1..Len(reposts)}

\* --------------------------------------------------- on_message, the code
\* Mutant of WrongChannel: the channel test is missing.
WrongChannel_Never(msg) == FALSE

\* line 52: if message.channel.id != TARGET_CHANNEL_ID: return
WrongChannel(msg) == msg.channel.id # TARGET_CHANNEL_ID

\* Mutant of FromBot: the bot test is missing.
FromBot_Never(msg) == FALSE

\* line 56: if message.author.bot: return
FromBot(msg) == msg.author.bot

\* Mutant of DetectCaught: the except clause of detect does not return.
DetectCaught_Never(d) == FALSE

\* line 63: except Exception  (every exception of detect is caught)
DetectCaught(d) == d = "Exception"

\* Mutant of NeedsTranslation: the language test is missing.
NeedsTranslation_Always(source_lang) == TRUE

\* line 68: if source_lang != "en"
NeedsTranslation(source_lang) == source_lang # "en"

\* line 73: except deepl.DeepLException  (only that class is caught)
TranslateCaught(t) == t = "DeepLException"

\* Mutant of TranslateRaised: the handler goes on after a failed translation.
TranslateRaised_Never(t) == FALSE

\* lines 69-72: translate_text raised instead of returning
TranslateRaised(t) == t # "ok"

\* lines 101-106: except discord.errors.Forbidden / discord.errors.NotFound
DeleteCaught(r) == r \in {"Forbidden", "NotFound"}

\* lines 102, 105: what the two handlers print
DeleteLog(r) ==
    IF r = "Forbidden" THEN "Bot lacks permission to delete the message."
    ELSE "Message not found (already deleted?)"

\* Mutant of final_content: original and translation change places.
final_content_Swapped(text, msg) == msg.content \o "\n-# [Original] " \o text

\* line 119: final_content = f"{translated_text}\n-# [Original] {message.content}"
final_content(text, msg) == text \o "\n-# [Original] " \o msg.content

\* lines 124-128: avatar_url
avatar_url(msg) ==
    IF msg.author.avatar # None THEN msg.author.avatar
    ELSE msg.author.default_avatar

\* lines 86-89: discord.File(io.BytesIO(file_content), filename=attachment.filename)
\* file_content is the body served at attachment.url.
File(attachment) == [fp |-> <<"bytes", attachment.url>>, filename |-> attachment.filename]

\* Mutant of Envelope: the translation is kept in a module-level variable,
\* which holds the text of the invocation that started last.
Envelope_SharedText(text, msg, files) ==
    LET last == CHOOSE i \in Invs :
                    pc[i] # "idle" /\ \A j \in Invs : j > i => pc[j] = "idle" IN
    [content |-> final_content(translated_text[last], msg),
     username |-> msg.author.display_name,
     avatar_url |-> avatar_url(msg),
     files |-> files]

\* lines 121-130: the keyword arguments of webhook.send
Envelope(text, msg, files) ==
    [content |-> final_content(text, msg),
     username |-> msg.author.display_name,
     avatar_url |-> avatar_url(msg),
     files |-> files]

\* Mutant of AfterAttachment: the deletion does not wait for the downloads.
AfterAttachment_DeleteAtOnce(msg, k) == "delete"

\* line 79: the loop goes on to the next attachment, or ends and line 100 runs.
AfterAttachment(msg, k) == IF k < Len(msg.attachments) THEN "fetch" ELSE "delete"

\* What an exception that leaves on_message prints: discord.py's event
\* dispatcher catches it and reports it on the console.
DispatcherLog == "Ignoring exception in on_message"

\* Mutant of Entry: detect is awaited, so the first segment of the handler
\* ends at the detection call, before its answer.
Entry_YieldsAtDetect(msg, d, t) ==
    IF WrongChannel(msg) \/ FromBot(msg) THEN
        [calls |-> <<>>, log |-> <<>>, escaped |-> FALSE, pc |-> "done", text |-> ""]
    ELSE
        [calls |-> <<>>, log |-> <<>>, escaped |-> FALSE, pc |-> "detect", text |-> ""]

\* lines 50-79: the handler from its entry to its first await, for message msg
\* when detect answers d and translate_text answers t.  Returns what the
\* segment called and printed and where the coroutine is afterwards.
Entry(msg, d, t) ==
    IF WrongChannel(msg) THEN
        [calls |-> <<>>, log |-> <<>>, escaped |-> FALSE, pc |-> "done", text |-> ""]
    ELSE IF FromBot(msg) THEN
        [calls |-> <<>>, log |-> <<>>, escaped |-> FALSE, pc |-> "done", text |-> ""]
    ELSE IF DetectCaught(d) THEN
        [calls |-> <<Call("detect", 0, d)>>, log |-> <<"Error detecting language">>,
         escaped |-> FALSE, pc |-> "done", text |-> ""]
    ELSE IF ~NeedsTranslation(d) THEN
        [calls |-> <<Call("detect", 0, d)>>, log |-> <<>>, escaped |-> FALSE,
         pc |-> "done", text |-> ""]
    ELSE IF TranslateRaised(t) /\ TranslateCaught(t) THEN
        [calls |-> <<Call("detect", 0, d), Call("translate", 0, t)>>,
         log |-> <<"Error translating message">>, escaped |-> FALSE,
         pc |-> "done", text |-> ""]
    ELSE IF TranslateRaised(t) THEN
        [calls |-> <<Call("detect", 0, d), Call("translate", 0, t)>>,
         log |-> <<DispatcherLog>>, escaped |-> TRUE, pc |-> "done", text |-> ""]
    ELSE
        [calls |-> <<Call("detect", 0, d), Call("translate", 0, t)>>,
         log |-> <<>>, escaped |-> FALSE, pc |-> AfterAttachment(msg, 0),
         text |-> TranslationOf(msg.content)]

\* lines 8-31 and 135-136: the module body runs.  With a required value
\* missing or false, exit() ends the process at line 31; otherwise the client
\* is created and run, and from then on the gateway's events are dispatched.
\* The only channel text of EnvTexts that passes line 26 is "1", so the
\* running bot has TARGET_CHANNEL_ID = 1.
Startup ==
    /\ proc = "starting"
    /\ proc' = IF RequiredSet(env) THEN "running" ELSE "exited"
    /\ UNCHANGED <<messages, deleted, reposts, pc, message, translated_text,
                   attachment_files, idx, calls, log, escaped, sent, env>>

\* The gateway dispatches the event of msg: invocation i of on_message runs
\* up to its first await.  Invocations are numbered in dispatch order.
OnMessage(i, msg) ==
    /\ proc = "running"
    /\ pc[i] = "idle"
    /\ \A j \in Invs : j < i => pc[j] # "idle"
    /\ \E d \in DetectResults, t \in TranslateResults :
        LET r == Entry(msg, d, t) IN
        /\ message' = [message EXCEPT ![i] = msg]
        /\ calls' = [calls EXCEPT ![i] = r.calls]
        /\ log' = [log EXCEPT ![i] = r.log]
        /\ escaped' = [escaped EXCEPT ![i] = r.escaped]
        /\ pc' = [pc EXCEPT ![i] = r.pc]
        /\ translated_text' = [translated_text EXCEPT ![i] = r.text]
        /\ idx' = [idx EXCEPT ![i] = IF r.pc = "fetch" THEN 1 ELSE 0]
    /\ attachment_files' = [attachment_files EXCEPT ![i] = <<>>]
    /\ messages' = IF msg.id \in MsgIds THEN [messages EXCEPT ![msg.id] = msg]
                   ELSE messages
    /\ UNCHANGED <<deleted, reposts, sent, env, proc>>

\* lines 91-96: what a failed download prints
FetchLog(r) ==
    IF r = "200" THEN <<>>
    ELSE IF r = "404" THEN <<"Failed to download attachment">>
    ELSE <<"Error downloading attachment">>

\* Mutant of FetchedFiles: a downloaded file is put in front of the list.
FetchedFiles_Prepend(files, attachment, r) ==
    IF r = "200" THEN <<File(attachment)>> \o files ELSE files

\* lines 83-90: the file list after the download of attachment answered r
FetchedFiles(files, attachment, r) ==
    IF r = "200" THEN Append(files, File(attachment)) ELSE files

\* lines 79-96: the download of attachment idx[i] returns (status and body,
\* or an exception); the loop goes on.  The two awaits of one download
\* (session.get, resp.read) are one step: between them the coroutine touches
\* nothing another invocation reads.
FetchAttachment(i) ==
    /\ pc[i] = "fetch"
    /\ \E r \in FetchResults :
        /\ attachment_files' = [attachment_files EXCEPT ![i] =
               FetchedFiles(@, message[i].attachments[idx[i]], r)]
        /\ calls' = [calls EXCEPT ![i] = Append(@, Call("fetch", idx[i], r))]
        /\ log' = [log EXCEPT ![i] = @ \o FetchLog(r)]
    /\ pc' = [pc EXCEPT ![i] = AfterAttachment(message[i], idx[i])]
    /\ idx' = [idx EXCEPT ![i] = IF AfterAttachment(message[i], @) = "fetch"
                                 THEN @ + 1 ELSE @]
    /\ UNCHANGED <<messages, deleted, reposts, message, translated_text, escaped,
                   sent, env, proc>>

\* The answers the platform can give to a deletion of message id: it deletes a
\* message once, and answers not-found for a message that is gone.
PlatformDelete(id) ==
    IF id \in deleted THEN DeleteResults \ {"ok"} ELSE DeleteResults \ {"NotFound"}

\* Mutant of DeleteProceeds: the handler of Forbidden does not return.
DeleteProceeds_AfterForbidden(r) == r \in {"ok", "Forbidden"}

\* Mutant of DeleteProceeds: the handler of NotFound does not return.
DeleteProceeds_AfterNotFound(r) == r \in {"ok", "NotFound"}

\* lines 99-108: line 109 is reached only when message.delete() returned.
DeleteProceeds(r) == r = "ok"

\* Mutant of FromUrlCaught: building the webhook is not guarded.
FromUrlCaught_Never(w) == FALSE

\* line 112: except Exception  (every exception of from_url is caught)
FromUrlCaught(w) == w = "Exception"

\* Mutant of AfterDelete: a deletion that is refused is tried again.
AfterDelete_Retries(r, w) ==
    IF r = "ok" THEN
        IF w = "ok" THEN
            [calls |-> <<Call("delete", 0, r), Call("from_url", 0, w)>>,
             log |-> <<>>, escaped |-> FALSE, pc |-> "send"]
        ELSE
            [calls |-> <<Call("delete", 0, r), Call("from_url", 0, w)>>,
             log |-> <<"Error creating webhook">>, escaped |-> FALSE, pc |-> "done"]
    ELSE IF r = "Forbidden" THEN
        [calls |-> <<Call("delete", 0, r)>>, log |-> <<DeleteLog(r)>>,
         escaped |-> FALSE, pc |-> "delete"]
    ELSE IF r = "NotFound" THEN
        [calls |-> <<Call("delete", 0, r)>>, log |-> <<DeleteLog(r)>>,
         escaped |-> FALSE, pc |-> "done"]
    ELSE
        [calls |-> <<Call("delete", 0, r)>>, log |-> <<DispatcherLog>>,
         escaped |-> TRUE, pc |-> "done"]

\* lines 98-121: message.delete() returns or raises (r); on success the webhook
\* is built (w) and webhook.send is called.  Returns what the segment called
\* and printed and where the coroutine is afterwards.
AfterDelete(r, w) ==
    IF DeleteProceeds(r) THEN
        IF w = "ok" THEN
            [calls |-> <<Call("delete", 0, r), Call("from_url", 0, w)>>,
             log |-> <<>>, escaped |-> FALSE, pc |-> "send"]
        ELSE IF FromUrlCaught(w) THEN
            [calls |-> <<Call("delete", 0, r), Call("from_url", 0, w)>>,
             log |-> <<"Error creating webhook">>, escaped |-> FALSE, pc |-> "done"]
        ELSE
            [calls |-> <<Call("delete", 0, r), Call("from_url", 0, w)>>,
             log |-> <<DispatcherLog>>, escaped |-> TRUE, pc |-> "done"]
    ELSE IF DeleteCaught(r) THEN
        [calls |-> <<Call("delete", 0, r)>>, log |-> <<DeleteLog(r)>>,
         escaped |-> FALSE, pc |-> "done"]
    ELSE
        [calls |-> <<Call("delete", 0, r)>>, log |-> <<DispatcherLog>>,
         escaped |-> TRUE, pc |-> "done"]

DeleteMessage(i) ==
    /\ pc[i] = "delete"
    /\ \E r \in PlatformDelete(message[i].id), w \in FromUrlResults :
        LET a == AfterDelete(r, w) IN
        /\ deleted' = IF r = "ok" THEN deleted \cup {message[i].id} ELSE deleted
        /\ calls' = [calls EXCEPT ![i] = @ \o a.calls]
        /\ log' = [log EXCEPT ![i] = @ \o a.log]
        /\ escaped' = [escaped EXCEPT ![i] = a.escaped]
        /\ pc' = [pc EXCEPT ![i] = a.pc]
    /\ UNCHANGED <<messages, reposts, message, translated_text, attachment_files,
                   idx, sent, env, proc>>

\* lines 131-132: what a failed send prints
SendLog(r) == IF r = "ok" THEN <<>> ELSE <<"Error sending webhook message">>

\* Mutant of WebhookSend: reposts are sent in dispatch order, a send waiting
\* until every invocation dispatched before has ended.
WebhookSend_InDispatchOrder(i) ==
    /\ pc[i] = "send"
    /\ \A j \in Invs : j < i => pc[j] = "done"
    /\ \E r \in SendResults :
        LET e == Envelope(translated_text[i], message[i], attachment_files[i]) IN
        /\ reposts' = IF r = "ok" THEN Append(reposts, e) ELSE reposts
        /\ sent' = [sent EXCEPT ![i] = IF r = "ok" THEN Append(@, e) ELSE @]
        /\ calls' = [calls EXCEPT ![i] = Append(@, Call("send", 0, r))]
        /\ log' = [log EXCEPT ![i] = @ \o SendLog(r)]
    /\ pc' = [pc EXCEPT ![i] = "done"]
    /\ UNCHANGED <<messages, deleted, message, translated_text, attachment_files,
                   idx, escaped, env, proc>>

\* lines 121-132: webhook.send returns (the platform posted the envelope) or
\* raises (nothing was posted); the handler ends.
WebhookSend(i) ==
    /\ pc[i] = "send"
    /\ \E r \in SendResults :
        LET e == Envelope(translated_text[i], message[i], attachment_files[i]) IN
        /\ reposts' = IF r = "ok" THEN Append(reposts, e) ELSE reposts
        /\ sent' = [sent EXCEPT ![i] = IF r = "ok" THEN Append(@, e) ELSE @]
        /\ calls' = [calls EXCEPT ![i] = Append(@, Call("send", 0, r))]
        /\ log' = [log EXCEPT ![i] = @ \o SendLog(r)]
    /\ pc' = [pc EXCEPT ![i] = "done"]
    /\ UNCHANGED <<messages, deleted, message, translated_text, attachment_files,
                   idx, escaped, env, proc>>

Next ==
    \/ Startup
    \/ \E i \in Invs : \E msg \in Dispatchable : OnMessage(i, msg)
    \/ \E i \in Invs : FetchAttachment(i)
    \/ \E i \in Invs : DeleteMessage(i)
    \/ \E i \in Invs : WebhookSend(i)

Spec == Init /\ [][Next]_vars

\* Every external call returns or raises: an invocation that waits on a
\* download, on the deletion or on the send is resumed.
Fairness ==
    \A i \in Invs : WF_vars(FetchAttachment(i) \/ DeleteMessage(i) \/ WebhookSend(i))

SpecFair == Spec /\ Fairness

\* ------------------------------------------------------------ properties
Done(i) == pc[i] = "done"
Dispatched(i) == pc[i] # "idle"
CallIdx(i) == 1..Len(calls[i])
Has(i, op) == \E n \in CallIdx(i) : calls[i][n].op = op
HasRes(i, op, res) == \E n \in CallIdx(i) : calls[i][n].op = op /\ calls[i][n].res = res
Count(i, op) == Cardinality({n \in CallIdx(i) : calls[i][n].op = op})
DetectedForeign(i) ==
    \E n \in CallIdx(i) : calls[i][n].op = "detect" /\ calls[i][n].res \notin {"en", "Exception"}
\* webhook.send has been called (it is pending or it has returned)
SendAttempted(i) == pc[i] = "send" \/ Has(i, "send")
\* a call of op that raised
Failed(i, op) == \E n \in CallIdx(i) : calls[i][n].op = op /\ calls[i][n].res # "ok"

\* The external calls of invocation i that decide the outcome of a repost
\* all succeeded: its message passed the filter, detection named a language
\* other than English, and no translate, delete, from_url or send call raised.
AllSucceed(i) ==
    /\ Done(i)
    /\ message[i].channel.id = TARGET_CHANNEL_ID
    /\ ~message[i].author.bot
    /\ DetectedForeign(i)
    /\ ~Failed(i, "translate") /\ ~Failed(i, "delete")
    /\ ~Failed(i, "from_url") /\ ~Failed(i, "send")

\* C1: an invocation for a message in the target channel, by a non-bot, that
\* is detected as non-English and whose translation, deletion, webhook
\* construction and send all succeed deletes the original exactly once and
\* sends exactly one repost; the repost's content is the translation, then
\* "\n-# [Original] ", then the original text, and its username is the
\* author's display name.
C1_HappyPathRepost ==
    \A i \in Invs : AllSucceed(i) =>
        /\ Count(i, "delete") = 1 /\ HasRes(i, "delete", "ok")
        /\ message[i].id \in deleted
        /\ Count(i, "send") = 1 /\ Len(sent[i]) = 1
        /\ sent[i][1].content =
               TranslationOf(message[i].content) \o "\n-# [Original] " \o message[i].content
        /\ sent[i][1].username = message[i].author.display_name

C1_Witness ==
    \E i \in Invs : AllSucceed(i) /\ Len(sent[i]) = 1 /\ Len(reposts) = 1
                    /\ message[i].content = "hola"

\* The statement C2 makes: in a terminated invocation the deletion succeeded
\* exactly when a webhook send was attempted.
C2_DeletedIffSendAttempted ==
    \A i \in Invs : Done(i) => (HasRes(i, "delete", "ok") <=> Has(i, "send"))

\* C2 (amended): a webhook send is attempted only by an invocation whose
\* deletion of the message succeeded; an invocation whose deletion succeeded
\* either attempts the send or fails to construct the webhook, and then it
\* attempts no send; a message is deleted exactly when an invocation for it
\* deleted it and then attempted a send or failed to construct the webhook.
C2_DeletedIffSendAttemptedOrWebhookFailed ==
    /\ \A i \in Invs :
        /\ SendAttempted(i) => (HasRes(i, "delete", "ok") /\ message[i].id \in deleted)
        /\ HasRes(i, "delete", "ok") => (SendAttempted(i) \/ Failed(i, "from_url"))
        /\ Failed(i, "from_url") => (Done(i) /\ ~SendAttempted(i))
    /\ \A id \in MsgIds :
        id \in deleted <=>
            \E i \in Invs : /\ message[i].id = id
                            /\ HasRes(i, "delete", "ok")
                            /\ (SendAttempted(i) \/ Failed(i, "from_url"))

C2_Witness ==
    \E i \in Invs : /\ Done(i) /\ HasRes(i, "delete", "ok")
                    /\ Failed(i, "from_url") /\ ~Has(i, "send")
                    /\ message[i].id \in deleted

\* Invocation j went as far as the platform let it: detection named a
\* foreign language and nothing but a not-found deletion failed.
OnlyNotFoundCanFail(j) ==
    /\ Done(j) /\ DetectedForeign(j) /\ ~Failed(j, "translate")
    /\ ~HasRes(j, "delete", "Forbidden") /\ ~HasRes(j, "delete", "HTTPException")
    /\ ~Failed(j, "from_url") /\ ~Failed(j, "send")

\* The statement C3 makes: when the event of a message is delivered again,
\* after the first invocation has reposted it, the second invocation attempts
\* the deletion and sends a duplicate repost.
C3_RedeliveryDuplicatesRepost ==
    \A i, j \in Invs :
        (/\ i < j /\ message[i].id = message[j].id /\ message[i].id \in MsgIds
         /\ Done(i) /\ Len(sent[i]) = 1 /\ OnlyNotFoundCanFail(j))
        => (Has(j, "delete") /\ Len(sent[j]) = 1)

\* C3 (amended): when the event of a message is delivered again, the second
\* invocation, if its detection and translation succeed, makes a deletion
\* attempt of its own; but once one invocation has deleted the message the
\* other's attempt fails, that invocation ends without constructing a
\* webhook or sending, and no duplicate exists: at most one of the two has
\* posted a repost.
C3_RedeliveryDeletesAgainWithoutDuplicate ==
    \A i, j \in Invs :
        (i # j /\ message[i].id = message[j].id /\ message[i].id \in MsgIds) =>
            /\ (Done(j) /\ DetectedForeign(j) /\ HasRes(j, "translate", "ok"))
                   => Count(j, "delete") = 1
            /\ (HasRes(i, "delete", "ok") /\ Has(j, "delete")) =>
                   /\ Failed(j, "delete") /\ Done(j)
                   /\ calls[j][Len(calls[j])].op = "delete"
                   /\ sent[j] = <<>>
            /\ Len(sent[i]) + Len(sent[j]) <= 1

C3_Witness ==
    \E i, j \in Invs :
        /\ i < j /\ message[i].id = message[j].id
        /\ Done(i) /\ Len(sent[i]) = 1
        /\ Done(j) /\ HasRes(j, "delete", "NotFound") /\ sent[j] = <<>>

\* C4: counting over all invocations that process the same message, running
\* one after the other or interleaved, at most one constructs a webhook and
\* at most one attempts a send, so at most one repost of the message exists
\* (the platform deletes a message once and answers not-found afterwards).
C4_AtMostOneRepostPerMessage ==
    /\ \A id \in MsgIds :
        /\ Cardinality({i \in Invs : message[i].id = id /\ Has(i, "from_url")}) <= 1
        /\ Cardinality({i \in Invs : message[i].id = id /\ SendAttempted(i)}) <= 1
    /\ Len(reposts) <= Cardinality(deleted)

C4_Witness ==
    \E i, j \in Invs :
        /\ i # j /\ message[i].id = message[j].id
        /\ pc[i] = "delete" /\ pc[j] = "send"

\* A webhook construction or send of invocation i raised.
WebhookError(i) == Failed(i, "from_url") \/ Failed(i, "send")

\* C5: a terminated invocation that deleted the message and posted no repost
\* had a webhook construction or send error; and an invocation that had such
\* an error has deleted the message before, has ended with the error as its
\* last call, printed and not raised, and neither it nor another invocation
\* posts a repost of that message: the message stays deleted.
C5_WebhookErrorLosesMessage ==
    \A i \in Invs :
        /\ (Done(i) /\ HasRes(i, "delete", "ok") /\ sent[i] = <<>>) => WebhookError(i)
        /\ WebhookError(i) =>
            /\ HasRes(i, "delete", "ok") /\ message[i].id \in deleted
            /\ Done(i) /\ ~escaped[i]
            /\ calls[i][Len(calls[i])].res = "Exception"
            /\ Count(i, "from_url") = 1 /\ Count(i, "send") <= 1
            /\ log[i][Len(log[i])] \in {"Error creating webhook",
                                        "Error sending webhook message"}
            /\ \A j \in Invs : message[j].id = message[i].id => sent[j] = <<>>

C5_Witness ==
    \E i, j \in Invs :
        /\ Failed(i, "send") /\ Done(i) /\ message[i].id \in deleted
        /\ Failed(j, "from_url") /\ Done(j) /\ message[j].id \in deleted

\* C6: when the deletion fails with Forbidden or NotFound, the invocation has
\* ended with the deletion as its last call, after the translation and the
\* attachment fetches: it constructs no webhook, sends nothing and has not
\* deleted the message.
C6_DeletionFailureAborts ==
    \A i \in Invs :
        (HasRes(i, "delete", "Forbidden") \/ HasRes(i, "delete", "NotFound")) =>
            /\ Done(i)
            /\ calls[i][Len(calls[i])].op = "delete" /\ Count(i, "delete") = 1
            /\ HasRes(i, "translate", "ok")
            /\ Count(i, "fetch") = Len(message[i].attachments)
            /\ ~Has(i, "from_url") /\ ~SendAttempted(i)
            /\ sent[i] = <<>>
            /\ ~HasRes(i, "delete", "ok")

C6_Witness ==
    \E i \in Invs :
        /\ Done(i) /\ HasRes(i, "delete", "Forbidden")
        /\ HasRes(i, "translate", "ok") /\ HasRes(i, "fetch", "200")
        /\ message[i].id \notin deleted

\* C7: when translate_text raises (an exception of any class), the invocation
\* has ended with the translation as its last call: no attachment fetch, no
\* deletion attempt, no webhook construction and no send; nothing was posted
\* and one line about the error is on the console.
C7_TranslationFailureIsSafe ==
    \A i \in Invs : Failed(i, "translate") =>
        /\ Done(i)
        /\ Len(calls[i]) = 2 /\ calls[i][2].op = "translate"
        /\ ~Has(i, "fetch") /\ ~Has(i, "delete")
        /\ ~Has(i, "from_url") /\ ~SendAttempted(i)
        /\ sent[i] = <<>>
        /\ log[i] \in {<<"Error translating message">>, <<DispatcherLog>>}

C7_Witness ==
    \E i, j \in Invs :
        /\ HasRes(i, "translate", "DeepLException") /\ Len(message[i].attachments) > 0
        /\ HasRes(j, "translate", "Exception") /\ message[j].id \notin deleted

\* C8: when detect raises (an exception of any class), the invocation has
\* ended with the detection as its only call: no translation, no fetch, no
\* deletion attempt, no send; the error is printed and does not leave the
\* handler.
C8_DetectionFailureIsSafe ==
    \A i \in Invs : HasRes(i, "detect", "Exception") =>
        /\ Done(i)
        /\ calls[i] = <<Call("detect", 0, "Exception")>>
        /\ sent[i] = <<>>
        /\ log[i] = <<"Error detecting language">>
        /\ ~escaped[i]

C8_Witness ==
    \E i \in Invs : HasRes(i, "detect", "Exception") /\ Done(i)
                    /\ Len(message[i].attachments) > 0

\* C9: an invocation for a message outside the target channel makes no
\* external call at all, whatever the author, the content and the
\* attachments are, and the message stays in its channel.
C9_OtherChannelIgnored ==
    \A i \in Invs : (Dispatched(i) /\ message[i].channel.id # TARGET_CHANNEL_ID) =>
        /\ Done(i)
        /\ calls[i] = <<>>
        /\ sent[i] = <<>>
        /\ message[i].id \notin deleted

C9_Witness ==
    \E i \in Invs : /\ Done(i) /\ message[i].channel.id = OtherChannelId
                    /\ ~message[i].author.bot /\ Len(message[i].attachments) > 0

\* C10: an invocation for a message whose author is a bot makes no external
\* call at all, in the target channel or elsewhere; the messages the webhook
\* posts are such messages, so none of them is ever deleted or reposted.
C10_BotAuthorIgnored ==
    /\ \A i \in Invs : (Dispatched(i) /\ message[i].author.bot) =>
           Done(i) /\ calls[i] = <<>> /\ sent[i] = <<>>
    /\ \A i \in Invs : message[i].id > MaxMsg => calls[i] = <<>>
    /\ \A k \in 1..Len(reposts) : RepostId(k) \notin deleted

C10_Witness ==
    \E i \in Invs : /\ Done(i) /\ message[i].id > MaxMsg
                    /\ message[i].channel.id = TARGET_CHANNEL_ID

\* C11: an invocation whose detection answers English has ended with the
\* detection as its only call: no translation, no fetch, no deletion attempt,
\* no webhook, nothing printed; it has not deleted or reposted the message.
C11_EnglishLeftUntouched ==
    \A i \in Invs : HasRes(i, "detect", "en") =>
        /\ Done(i)
        /\ calls[i] = <<Call("detect", 0, "en")>>
        /\ sent[i] = <<>> /\ log[i] = <<>> /\ ~escaped[i]
        /\ (message[i].id \in deleted =>
               \E j \in Invs : j # i /\ message[j].id = message[i].id
                               /\ HasRes(j, "delete", "ok"))

C11_Witness ==
    \E i \in Invs : /\ HasRes(i, "detect", "en") /\ Done(i)
                    /\ Len(message[i].attachments) > 0
                    /\ message[i].id \notin deleted

\* The files of the attachments of invocation i whose download, among its
\* first n calls, answered 200, in call order.
RECURSIVE FetchedOk(_, _)
FetchedOk(i, n) ==
    IF n = 0 THEN <<>>
    ELSE LET c == calls[i][n] IN
         IF c.op = "fetch" /\ c.res = "200"
         THEN Append(FetchedOk(i, n - 1),
                     [fp |-> <<"bytes", message[i].attachments[c.k].url>>,
                      filename |-> message[i].attachments[c.k].filename])
         ELSE FetchedOk(i, n - 1)

\* A download of invocation i answered another status or raised.
FetchFailed(i) ==
    \E n \in CallIdx(i) : calls[i][n].op = "fetch" /\ calls[i][n].res # "200"

\* C12: the files given to webhook.send are exactly the attachments whose
\* download answered 200, in the order of the message's attachments, the
\* failed ones left out; and a failed download does not end the invocation:
\* every attachment is tried and the deletion is attempted.
C12_RepostCarriesFetchedAttachments ==
    \A i \in Invs :
        /\ SendAttempted(i) => attachment_files[i] = FetchedOk(i, Len(calls[i]))
        /\ \A n \in 1..Len(sent[i]) : sent[i][n].files = FetchedOk(i, Len(calls[i]))
        /\ \A n, m \in CallIdx(i) :
               (n < m /\ calls[i][n].op = "fetch" /\ calls[i][m].op = "fetch")
                   => calls[i][n].k < calls[i][m].k
        /\ (FetchFailed(i) /\ Done(i)) =>
               (Count(i, "fetch") = Len(message[i].attachments) /\ Has(i, "delete"))
        /\ (FetchFailed(i) /\ ~Done(i)) => pc[i] \in {"fetch", "delete", "send"}

C12_Witness ==
    \E i \in Invs :
        /\ Len(message[i].attachments) = 2
        /\ HasRes(i, "fetch", "200")
        /\ \E n \in CallIdx(i) : calls[i][n] = Call("fetch", 2, "404")
        /\ Len(sent[i]) = 1
        /\ sent[i][1].files = <<[fp |-> <<"bytes", message[i].attachments[1].url>>,
                                 filename |-> message[i].attachments[1].filename]>>

\* A required value is not set, or the channel identifier is set to a text
\* that is not an integer.
ConfigurationIncomplete ==
    \/ \E name \in EnvNames : name \notin DOMAIN env
    \/ /\ "TARGET_CHANNEL_ID" \in DOMAIN env
       /\ env["TARGET_CHANNEL_ID"] \notin {<<"0">>, <<"1">>}

\* C13: when one of the four required values is missing, or the channel
\* identifier is not a valid integer, the process exits at startup: it never
\* runs the client, and no invocation of the handler is ever dispatched.
C13_StartupFailsFast ==
    ConfigurationIncomplete =>
        /\ proc \in {"starting", "exited"}
        /\ \A i \in Invs : pc[i] = "idle" /\ calls[i] = <<>>
        /\ deleted = {} /\ reposts = <<>>

C13_Witness ==
    /\ proc = "exited"
    /\ DOMAIN env = EnvNames
    /\ env["TARGET_CHANNEL_ID"] = <<"x">>
    /\ env["DISCORD_TOKEN"] = <<"x">> /\ env["WEBHOOK_URL"] = <<"x">>
    /\ env["DEEPL_API_KEY"] = <<"x">>

\* The message of invocation i passes the two tests of lines 52-57.
PassesFilter(i) ==
    message[i].channel.id = TARGET_CHANNEL_ID /\ ~message[i].author.bot

\* The statement C14 makes: the handler yields at its detection call (and at
\* its translation call), so the step that starts an invocation for a message
\* that passes the filter ends with the invocation waiting on detection, no
\* external call having returned yet.
C14_YieldsAtDetectionAndTranslation ==
    [][\A i \in Invs :
          (pc[i] = "idle" /\ pc'[i] # "idle"
           /\ message'[i].channel.id = TARGET_CHANNEL_ID /\ ~message'[i].author.bot)
              => calls'[i] = <<>>]_vars

\* C14 (amended): the handler yields to the event loop at the attachment
\* downloads, the deletion and the webhook send only.  Detection and
\* translation are plain calls that return before the handler yields for the
\* first time: in no state is an invocation waiting on its detection or
\* translation call, so no step of another invocation comes between the
\* start of an invocation and the answer of its translation.
C14_YieldsOnlyAtFetchDeleteSend ==
    \A i \in Invs :
        /\ pc[i] \in {"idle", "fetch", "delete", "send", "done"}
        /\ (Dispatched(i) /\ PassesFilter(i)) => Has(i, "detect")
        /\ DetectedForeign(i) => Has(i, "translate")
        /\ pc[i] \in {"fetch", "delete", "send"} => HasRes(i, "translate", "ok")
        /\ pc[i] = "fetch" => Count(i, "fetch") = idx[i] - 1 /\ ~Has(i, "delete")
        /\ pc[i] = "delete" => ~Has(i, "delete")
        /\ pc[i] = "send" => HasRes(i, "from_url", "ok") /\ ~Has(i, "send")

C14_Witness ==
    \E i, j \in Invs :
        /\ i < j /\ message[i].id # message[j].id
        /\ pc[i] = "fetch" /\ Count(i, "fetch") = 0
        /\ pc[j] = "send"

\* A call of invocation i raised or, for a download, answered another status.
AnyCallFailed(i) ==
    \E n \in CallIdx(i) :
        \/ calls[i][n].res = "Exception"
        \/ calls[i][n].op \in {"translate", "delete"} /\ calls[i][n].res # "ok"
        \/ calls[i][n].op = "fetch" /\ calls[i][n].res # "200"

\* C15: whatever error a step of the pipeline raises, it is caught inside the
\* handler: no exception leaves on_message, and an invocation that ended
\* after an error has printed it.
C15_NoExceptionEscapes ==
    \A i \in Invs :
        /\ ~escaped[i]
        /\ (Done(i) /\ AnyCallFailed(i)) => Len(log[i]) > 0

\* The place of an external call in the handler's text.
Rank(op) ==
    CASE op = "detect" -> 1 [] op = "translate" -> 2 [] op = "fetch" -> 3
      [] op = "delete" -> 4 [] op = "from_url" -> 5 [] op = "send" -> 6

\* C16: the external calls of one invocation come in the order detection,
\* translation, downloads (in attachment order), deletion, webhook
\* construction, send; no download comes before the translation succeeded,
\* the deletion is attempted only after every attachment has been tried, and
\* the webhook is built and the send attempted only after the deletion
\* succeeded.
C16_CallsInPipelineOrder ==
    \A i \in Invs :
        /\ \A n, m \in CallIdx(i) : n < m =>
               \/ Rank(calls[i][n].op) < Rank(calls[i][m].op)
               \/ /\ calls[i][n].op = "fetch" /\ calls[i][m].op = "fetch"
                  /\ calls[i][n].k < calls[i][m].k
        /\ \A m \in CallIdx(i) :
            /\ calls[i][m].op = "fetch" =>
                   /\ calls[i][m].k = m - 2
                   /\ calls[i][2] = Call("translate", 0, "ok")
            /\ calls[i][m].op = "delete" =>
                   /\ m = Len(message[i].attachments) + 3
                   /\ calls[i][2] = Call("translate", 0, "ok")
                   /\ \A k \in 1..Len(message[i].attachments) :
                          calls[i][k + 2].op = "fetch" /\ calls[i][k + 2].k = k
            /\ calls[i][m].op \in {"from_url", "send"} =>
                   \E n \in 1..(m - 1) : calls[i][n] = Call("delete", 0, "ok")
        /\ pc[i] = "send" => HasRes(i, "delete", "ok")
        /\ pc[i] = "delete" => Count(i, "fetch") = Len(message[i].attachments)

C16_Witness ==
    \E i \in Invs :
        /\ Done(i) /\ Len(message[i].attachments) = 2
        /\ Len(calls[i]) = 7 /\ calls[i][7].op = "send"
        /\ calls[i][3].res = "Exception"

\* C17: nothing serialises the invocations: an invocation that waits on a
\* download, the deletion or the send can be resumed whatever the state of
\* the invocations dispatched before it; so the repost of a message whose
\* event was handled second can be posted before the repost of the first.
C17_NothingSerialisesInvocations ==
    \A i \in Invs :
        /\ pc[i] = "fetch" => ENABLED FetchAttachment(i)
        /\ pc[i] = "delete" => ENABLED DeleteMessage(i)
        /\ pc[i] = "send" => ENABLED WebhookSend(i)

C17_Witness ==
    \E i, j \in Invs :
        /\ i < j /\ message[i].id # message[j].id
        /\ Len(sent[i]) = 1 /\ Len(sent[j]) = 1 /\ sent[i][1] # sent[j][1]
        /\ Len(reposts) = 2
        /\ reposts[1] = sent[j][1] /\ reposts[2] = sent[i][1]

\* C18: nothing is retried: an invocation makes at most one detection call,
\* one translation call, one download per attachment, one deletion attempt,
\* one webhook construction and one send; and, every external call returning
\* or raising, every invocation that was dispatched ends.
C18_NoRetryAndTermination ==
    /\ [](\A i \in Invs :
            /\ Count(i, "detect") <= 1 /\ Count(i, "translate") <= 1
            /\ Count(i, "delete") <= 1 /\ Count(i, "from_url") <= 1
            /\ Count(i, "send") <= 1
            /\ \A k \in 1..MaxAtt :
                   Cardinality({n \in CallIdx(i) :
                                   calls[i][n].op = "fetch" /\ calls[i][n].k = k}) <= 1
            /\ Len(calls[i]) <= Len(message[i].attachments) + 5)
    /\ \A i \in Invs : (pc[i] # "idle") ~> (pc[i] = "done")

C18_Witness ==
    \E i \in Invs :
        /\ Done(i) /\ Len(message[i].attachments) = MaxAtt
        /\ HasRes(i, "delete", "Forbidden")
        /\ HasRes(i, "fetch", "Exception") /\ HasRes(i, "fetch", "404")

\* The avatar the repost of message msg shows.
OwnAvatar(msg) ==
    IF msg.author.avatar = None THEN DefaultAvatarUrl ELSE msg.author.avatar

\* C19: whatever the interleaving, what an invocation deletes and posts comes
\* from its own message and its own calls: the content, username, avatar and
\* files of its repost are those of its message, its translation and its
\* downloads, the message it deletes is its own, and every deleted message
\* and every repost is the work of an invocation for that message.
C19_InvocationsDoNotInterfere ==
    /\ \A i \in Invs :
        /\ \A n \in 1..Len(sent[i]) :
               sent[i][n] =
                   [content |-> TranslationOf(message[i].content)
                                    \o "\n-# [Original] " \o message[i].content,
                    username |-> message[i].author.display_name,
                    avatar_url |-> OwnAvatar(message[i]),
                    files |-> FetchedOk(i, Len(calls[i]))]
        /\ HasRes(i, "delete", "ok") => message[i].id \in deleted
        /\ pc[i] \in {"fetch", "delete", "send"} =>
               /\ translated_text[i] = TranslationOf(message[i].content)
               /\ attachment_files[i] = FetchedOk(i, Len(calls[i]))
    /\ \A id \in deleted :
           \E i \in Invs : message[i].id = id /\ HasRes(i, "delete", "ok")
    /\ \A k \in 1..Len(reposts) :
           \E i \in Invs : Len(sent[i]) = 1 /\ sent[i][1] = reposts[k]

C19_Witness ==
    \E i, j \in Invs :
        /\ i < j /\ message[i].id # message[j].id
        /\ message[i].content # message[j].content
        /\ message[i].author # message[j].author
        /\ Len(sent[i]) = 1 /\ Len(sent[j]) = 1
        /\ Len(sent[i][1].files) = 1 /\ Len(sent[j][1].files) = 2
        /\ reposts = <<sent[i][1], sent[j][1]>>

====
